---- MODULE Spec2Model ----
(***************************************************************************)
(* Image fingerprint catalogue: the similarity scorer (compare_vectors),   *)
(* the matcher (run_comparison_logic), the durable index (load_index,      *)
(* save_index, index_all_images) and the menu session (manage_index).      *)
(*                                                                         *)
(* Numbers the code computes in floating point are kept as exact           *)
(* fractions [num, den]; two fractions are compared by cross               *)
(* multiplication.                                                         *)
(***************************************************************************)
EXTENDS Integers, Sequences, FiniteSets, TLC

VARIABLES pc, inp, out, index_data, store

vars == <<pc, inp, out, index_data, store>>

(***************************************************************************)
(* Bounds of the model and constants of the program                        *)
(***************************************************************************)

\* the largest number of pixels of a vector handed to the scorer
MaxPixels == 2

\* the canonical resolution, in pixels: CANONICAL_SIZE is 64 x 64 in the
\* code, and every decoded image has 3 * CanonicalPixels channel values
CanonicalPixels == 2

\* the largest number of entries of a catalogue
MaxEntries == 3

\* the largest number of entries of a directory listing
MaxBatch == 3

\* the longest fingerprint of a catalogue that is saved and loaded back
MaxVectorLen == 2

\* the longest store text that is enumerated character by character
MaxRaw == 4

\* image_indexer.py: RGB_TOLERANCE = 15
RGB_TOLERANCE == 15

\* main.py: STRONG_MATCH_THRESHOLD = 60.0
STRONG_MATCH_THRESHOLD == 60

\* channel intensities: 0..255 in the code, two levels here, one tolerance
\* step apart from the other
ChanVals == {0, RGB_TOLERANCE + 1}

\* tolerances handed to the scorer: none, the program's, and one that equals
\* the only non-zero channel difference
Tolerances == {0, RGB_TOLERANCE, RGB_TOLERANCE + 1}

None == [t |-> "None"]

(***************************************************************************)
(* Helpers                                                                 *)
(***************************************************************************)

Abs(x) == IF x < 0 THEN -x ELSE x

Max3(x, y, z) ==
  LET xy == IF x >= y THEN x ELSE y
  IN  IF xy >= z THEN xy ELSE z

\* all sequences over S of length n
SeqsOfLen(S, n) == [1..n -> S]

\* all sequences over S of length lo..hi
SeqsUpTo(S, lo, hi) == UNION {SeqsOfLen(S, n) : n \in lo..hi}

(***************************************************************************)
(* compare_vectors (image_indexer.py:36-63)                                *)
(***************************************************************************)

\* a returned float, as the fraction num/den
Value(num, den) == [exc |-> "none", num |-> num, den |-> den]

\* an exception leaving the function
Raised(e) == [exc |-> e, num |-> 0, den |-> 1]

\* the per-pixel test:  max(diff_r, diff_g, diff_b) > tolerance ; i is the
\* code's 0-based index of the pixel's R value
PixelMismatchedGE(a, b, tolerance, i) ==
  Max3(Abs(a[i+1] - b[i+1]), Abs(a[i+2] - b[i+2]), Abs(a[i+3] - b[i+3])) >= tolerance

PixelMismatched(a, b, tolerance, i) ==
  Max3(Abs(a[i+1] - b[i+1]), Abs(a[i+2] - b[i+2]), Abs(a[i+3] - b[i+3])) > tolerance

\* the loop  for i in range(0, total_channels, 3) : the count of mismatched
\* pixels, or -1 when a[i+1] or a[i+2] is past the end (IndexError)
RECURSIVE MismatchLoop(_, _, _, _, _)
MismatchLoop(a, b, tolerance, i, mismatched) ==
  IF i >= Len(a) THEN mismatched
  ELSE IF i + 2 >= Len(a) THEN -1
  ELSE MismatchLoop(a, b, tolerance, i + 3,
         IF PixelMismatched(a, b, tolerance, i) THEN mismatched + 1 ELSE mismatched)

\* total_pixels = total_channels / 3 ;
\* match_percentage = 100 - (mismatched / total_pixels) * 100
\*                  = (100 * total_channels - 300 * mismatched) / total_channels
MatchPercentage(total_channels, mismatched) ==
  Value(100 * total_channels - 300 * mismatched, total_channels)

LengthMismatchRaises(a, b) == Raised("ValueError")

LengthMismatch(a, b) == Value(0, 1)

compare_vectors(vector_a, vector_b, tolerance) ==
  IF Len(vector_a) # Len(vector_b) THEN LengthMismatch(vector_a, vector_b)
  ELSE LET total_channels == Len(vector_a)
           mismatched == MismatchLoop(vector_a, vector_b, tolerance, 0, 0)
       IN  IF mismatched < 0 THEN Raised("IndexError")
           ELSE IF total_channels = 0 THEN Raised("ZeroDivisionError")
           ELSE MatchPercentage(total_channels, mismatched)

(***************************************************************************)
(* Python values: the in-memory catalogue and what json.load returns       *)
(***************************************************************************)

PyInt(n) == [t |-> "int", v |-> n]

\* a str, as its sequence of characters
PyStr(chars) == [t |-> "str", v |-> chars]

PyList(elems) == [t |-> "list", v |-> elems]

\* a dict, as its items <<[k |-> key, v |-> value], ...>> in insertion order
PyDict(items) == [t |-> "dict", v |-> items]

\* a fingerprint (sequence of integers) as a Python list of int
VectorList(vector) == PyList([i \in 1..Len(vector) |-> PyInt(vector[i])])

\* the integers of a Python list of int
ListVector(list) == [i \in 1..Len(list.v) |-> list.v[i].v]

\* key in d
DictHas(items, key) == \E i \in 1..Len(items) : items[i].k = key

\* d[key]
DictGet(items, key) == items[CHOOSE i \in 1..Len(items) : items[i].k = key].v

\* d[key] = value : an existing key keeps its place, a new key goes last
DictSet(items, key, value) ==
  IF DictHas(items, key)
    THEN [i \in 1..Len(items) |->
            IF items[i].k = key THEN [k |-> key, v |-> value] ELSE items[i]]
    ELSE Append(items, [k |-> key, v |-> value])

\* del d[key]
DictDel(items, key) ==
  LET keep(e) == e.k # key
  IN  SelectSeq(items, keep)

(***************************************************************************)
(* json.dump(index_data, f, indent=4)  (image_indexer.py:80)               *)
(***************************************************************************)

\* image_indexer.py:80  indent=4
INDENT == 4

QUOTE == "\""
BACKSLASH == "\\"
NEWLINE == "\n"
SPACE == " "

DigitChars == <<"0", "1", "2", "3", "4", "5", "6", "7", "8", "9">>

IsDigit(c) == \E d \in 1..10 : DigitChars[d] = c

DigitValue(c) == (CHOOSE d \in 1..10 : DigitChars[d] = c) - 1

RECURSIVE NatRepr(_)
NatRepr(n) ==
  IF n < 10 THEN <<DigitChars[n + 1]>>
  ELSE NatRepr(n \div 10) \o <<DigitChars[(n % 10) + 1]>>

\* int.__repr__
IntRepr(n) == IF n < 0 THEN <<"-">> \o NatRepr(-n) ELSE NatRepr(n)

RECURSIVE Spaces(_)
Spaces(n) == IF n <= 0 THEN <<>> ELSE <<SPACE>> \o Spaces(n - 1)

\* the encoder's  '\n' + ' ' * (indent * level)
NewlineIndent(level) == <<NEWLINE>> \o Spaces(INDENT * level)

\* py_encode_basestring_ascii on the characters of the model: a quote, a
\* backslash and a newline are escaped
RECURSIVE EscapeChars(_)
EscapeChars(chars) ==
  IF chars = <<>> THEN <<>>
  ELSE LET c == Head(chars)
           e == IF c = QUOTE THEN <<BACKSLASH, QUOTE>>
                ELSE IF c = BACKSLASH THEN <<BACKSLASH, BACKSLASH>>
                ELSE IF c = NEWLINE THEN <<BACKSLASH, "n">>
                ELSE <<c>>
       IN  e \o EscapeChars(Tail(chars))

EncodeStringRaw(chars) == <<QUOTE>> \o chars \o <<QUOTE>>

EncodeString(chars) == <<QUOTE>> \o EscapeChars(chars) \o <<QUOTE>>

EncodeInt(n) == IntRepr(n)

\* _iterencode, _iterencode_list, _iterencode_dict with indent set: the item
\* separator is ',' and the key separator ': '
RECURSIVE Encode(_, _), EncodeList(_, _, _), EncodeDict(_, _, _)
Encode(val, level) ==
  CASE val.t = "int"  -> EncodeInt(val.v)
    [] val.t = "str"  -> EncodeString(val.v)
    [] val.t = "list" ->
         IF Len(val.v) = 0 THEN <<"[", "]">>
         ELSE <<"[">> \o EncodeList(val.v, 1, level + 1)
                \o NewlineIndent(level) \o <<"]">>
    [] val.t = "dict" ->
         IF Len(val.v) = 0 THEN <<"{", "}">>
         ELSE <<"{">> \o EncodeDict(val.v, 1, level + 1)
                \o NewlineIndent(level) \o <<"}">>

EncodeList(elems, i, level) ==
  IF i > Len(elems) THEN <<>>
  ELSE (IF i > 1 THEN <<",">> ELSE <<>>)
         \o NewlineIndent(level) \o Encode(elems[i], level)
         \o EncodeList(elems, i + 1, level)

EncodeDict(items, i, level) ==
  IF i > Len(items) THEN <<>>
  ELSE (IF i > 1 THEN <<",">> ELSE <<>>)
         \o NewlineIndent(level) \o EncodeString(items[i].k) \o <<":", SPACE>>
         \o Encode(items[i].v, level)
         \o EncodeDict(items, i + 1, level)

\* json.dumps(obj, indent=4)
Dumps(val) == Encode(val, 0)

(***************************************************************************)
(* json.load(f)  (image_indexer.py:71): json.decoder and json.scanner on   *)
(* the characters of the model. The literals null, true, false, NaN and    *)
(* Infinity, fractions, exponents and the escapes \b \f \r \t \u need      *)
(* characters no store of the model holds.                                 *)
(***************************************************************************)

ParseFail == [ok |-> FALSE, val |-> None, pos |-> 0]

ParseOk(val, pos) == [ok |-> TRUE, val |-> val, pos |-> pos]

IsWhitespace(c) == c \in {SPACE, NEWLINE, "\t", "\r"}

\* WHITESPACE.match(s, i).end()
RECURSIVE SkipWs(_, _)
SkipWs(s, i) ==
  IF i <= Len(s) /\ IsWhitespace(s[i]) THEN SkipWs(s, i + 1) ELSE i

\* py_scanstring from the character after the opening quote, strict
RECURSIVE ScanString(_, _, _)
ScanString(s, i, acc) ==
  IF i > Len(s) THEN ParseFail
  ELSE IF s[i] = QUOTE THEN ParseOk(PyStr(acc), i + 1)
  ELSE IF s[i] = NEWLINE \/ s[i] = "\t" \/ s[i] = "\r" THEN ParseFail
  ELSE IF s[i] = BACKSLASH THEN
         IF i + 1 > Len(s) THEN ParseFail
         ELSE IF s[i+1] \in {QUOTE, BACKSLASH, "/"}
                THEN ScanString(s, i + 2, Append(acc, s[i+1]))
         ELSE IF s[i+1] = "n" THEN ScanString(s, i + 2, Append(acc, NEWLINE))
         ELSE ParseFail
  ELSE ScanString(s, i + 1, Append(acc, s[i]))

\* the digits of [1-9]\d* from position i on
RECURSIVE ScanDigits(_, _, _)
ScanDigits(s, i, n) ==
  IF i <= Len(s) /\ IsDigit(s[i])
    THEN ScanDigits(s, i + 1, 10 * n + DigitValue(s[i]))
    ELSE [n |-> n, pos |-> i]

\* NUMBER_RE  (-?(?:0|[1-9]\d*)) and int()
ScanNumber(s, i) ==
  LET neg == s[i] = "-"
      j == IF neg THEN i + 1 ELSE i
  IN  IF j > Len(s) \/ ~IsDigit(s[j]) THEN ParseFail
      ELSE IF s[j] = "0" THEN ParseOk(PyInt(0), j + 1)
      ELSE LET d == ScanDigits(s, j, 0)
           IN  ParseOk(PyInt(IF neg THEN -d.n ELSE d.n), d.pos)

RECURSIVE ScanOnce(_, _), ArrayItems(_, _, _), ObjectItems(_, _, _)
\* py_make_scanner's _scan_once
ScanOnce(s, i) ==
  IF i > Len(s) THEN ParseFail
  ELSE IF s[i] = QUOTE THEN ScanString(s, i + 1, <<>>)
  ELSE IF s[i] = "{" THEN
         LET j == SkipWs(s, i + 1)
         IN  IF j > Len(s) THEN ParseFail
             ELSE IF s[j] = "}" THEN ParseOk(PyDict(<<>>), j + 1)
             ELSE IF s[j] # QUOTE THEN ParseFail
             ELSE ObjectItems(s, j, <<>>)
  ELSE IF s[i] = "[" THEN
         LET j == SkipWs(s, i + 1)
         IN  IF j > Len(s) THEN ParseFail
             ELSE IF s[j] = "]" THEN ParseOk(PyList(<<>>), j + 1)
             ELSE ArrayItems(s, j, <<>>)
  ELSE IF s[i] = "-" \/ IsDigit(s[i]) THEN ScanNumber(s, i)
  ELSE ParseFail

\* JSONArray: i is at the start of an element
ArrayItems(s, i, acc) ==
  LET r == ScanOnce(s, i)
  IN  IF ~r.ok THEN ParseFail
      ELSE LET j == SkipWs(s, r.pos)
           IN  IF j > Len(s) THEN ParseFail
               ELSE IF s[j] = "]" THEN ParseOk(PyList(Append(acc, r.val)), j + 1)
               ELSE IF s[j] = "," THEN ArrayItems(s, SkipWs(s, j + 1), Append(acc, r.val))
               ELSE ParseFail

\* JSONObject: i is at the opening quote of a key; dict(pairs) keeps the
\* place of a key's first pair and the value of its last
ObjectItems(s, i, acc) ==
  LET key == ScanString(s, i + 1, <<>>)
  IN  IF ~key.ok THEN ParseFail
      ELSE LET j == SkipWs(s, key.pos)
           IN  IF j > Len(s) \/ s[j] # ":" THEN ParseFail
               ELSE LET r == ScanOnce(s, SkipWs(s, j + 1))
                    IN  IF ~r.ok THEN ParseFail
                        ELSE LET m == SkipWs(s, r.pos)
                                 items == DictSet(acc, key.val.v, r.val)
                             IN  IF m > Len(s) THEN ParseFail
                                 ELSE IF s[m] = "}" THEN ParseOk(PyDict(items), m + 1)
                                 ELSE IF s[m] = "," THEN
                                        LET n == SkipWs(s, m + 1)
                                        IN  IF n > Len(s) \/ s[n] # QUOTE THEN ParseFail
                                            ELSE ObjectItems(s, n, items)
                                 ELSE ParseFail

\* JSONDecoder.decode: one value, then nothing but whitespace;
\* ok = FALSE stands for JSONDecodeError
Decode(s) ==
  LET r == ScanOnce(s, SkipWs(s, 1))
  IN  IF ~r.ok THEN ParseFail
      ELSE IF SkipWs(s, r.pos) # Len(s) + 1 THEN ParseFail
      ELSE r

(***************************************************************************)
(* The durable store, load_index and save_index                            *)
(***************************************************************************)

\* INDEX_FILE: absent, or its text as a sequence of characters
NoFile == [exists |-> FALSE, text |-> <<>>]

FileOf(text) == [exists |-> TRUE, text |-> text]

\* what load_index returns for a text json.load cannot decode
FreshIndex == PyDict(<<>>)

\* image_indexer.py:65-75
load_index(file) ==
  IF file.exists
    THEN LET r == Decode(file.text)
         IN  IF r.ok THEN r.val ELSE FreshIndex
    ELSE FreshIndex

\* image_indexer.py:77-81: the file is opened 'w' and rewritten whole
save_index(data) == FileOf(Dumps(data))

(***************************************************************************)
(* get_feature_vector (image_indexer.py:15-34). Decoding and resampling    *)
(* are PIL's: a file is what PIL makes of it, an image with its canonical  *)
(* pixels, or something Image.open raises on (corrupt, or not there).      *)
(***************************************************************************)

\* a vector whose first k pixels are bright and whose others are dark
RECURSIVE Bright(_, _)
Bright(k, pixels) ==
  IF pixels = 0 THEN <<>>
  ELSE (IF k > 0 THEN <<RGB_TOLERANCE + 1, RGB_TOLERANCE + 1, RGB_TOLERANCE + 1>>
                 ELSE <<0, 0, 0>>)
         \o Bright(k - 1, pixels - 1)

\* the canonical pixels of the images of the model
ImageVectors == {Bright(k, CanonicalPixels) : k \in 0..CanonicalPixels}

ImageFile(vector) == [kind |-> "image", vector |-> vector]
CorruptFile == [kind |-> "corrupt", vector |-> <<>>]
MissingFile == [kind |-> "missing", vector |-> <<>>]

ImageFiles == {ImageFile(v) : v \in ImageVectors}

\* the feature vector, or None (ok = FALSE) after the printed error
get_feature_vector(file) ==
  IF file.kind = "image"
    THEN [ok |-> TRUE, vector |-> file.vector]
    ELSE [ok |-> FALSE, vector |-> <<>>]

\*  if vector:  /  if not new_vector:   None and the empty list are falsy
Truthy(fv) == fv.ok /\ Len(fv.vector) > 0

(***************************************************************************)
(* Catalogues of the model                                                 *)
(***************************************************************************)

\* display names: a plain one, one with a quote in it, the empty one
Names == {<<"a">>, <<"a", QUOTE>>, <<>>}

\* the item sequences of n items, keys distinct and from names, values from
\* vectors
RECURSIVE ItemSeqs(_, _, _)
ItemSeqs(names, vectors, n) ==
  IF n = 0 THEN {<<>>}
  ELSE {Append(t[1], [k |-> t[2], v |-> VectorList(t[3])]) :
          t \in {u \in ItemSeqs(names, vectors, n - 1) \X names \X vectors :
                   ~DictHas(u[1], u[2])}}

Catalogues(names, vectors, n) ==
  UNION {ItemSeqs(names, vectors, k) : k \in 0..n}

(***************************************************************************)
(* run_comparison_logic (main.py:28-68)                                    *)
(***************************************************************************)

\* main.py:59  match_results[:5]
TOP_N == 5

\* c1 >= c2 and c1 = c2 on fractions with positive denominators
ConfGE(c1, c2) == c1.num * c2.den >= c2.num * c1.den
ConfEQ(c1, c2) == c1.num * c2.den = c2.num * c1.den

\* main.py:41-44: one result per item of index_data.items(), in its order
MatchResults(new_vector, items) ==
  [i \in 1..Len(items) |->
     [name |-> items[i].k,
      confidence |-> compare_vectors(new_vector, ListVector(items[i].v), RGB_TOLERANCE)]]

\* where e goes in a list sorted by descending confidence: behind every
\* element whose confidence is at least e's
RECURSIVE InsertBehindEqual(_, _)
InsertBehindEqual(sorted, e) ==
  IF sorted = <<>> THEN <<e>>
  ELSE IF ConfGE(Head(sorted).confidence, e.confidence)
         THEN <<Head(sorted)>> \o InsertBehindEqual(Tail(sorted), e)
         ELSE <<e>> \o sorted

\* the same, ahead of the elements of equal confidence
RECURSIVE InsertAheadOfEqual(_, _)
InsertAheadOfEqual(sorted, e) ==
  IF sorted = <<>> THEN <<e>>
  ELSE IF ConfGE(e.confidence, Head(sorted).confidence)
         THEN <<e>> \o sorted
         ELSE <<Head(sorted)>> \o InsertAheadOfEqual(Tail(sorted), e)

RECURSIVE SortUnstable(_)
SortUnstable(results) ==
  IF results = <<>> THEN <<>>
  ELSE InsertAheadOfEqual(SortUnstable(SubSeq(results, 1, Len(results) - 1)),
                          results[Len(results)])

\* main.py:51  match_results.sort(key=lambda x: x['confidence'], reverse=True)
\* list.sort is stable, with reverse=True too: equal keys keep their order
RECURSIVE SortByConfidence(_)
SortByConfidence(results) ==
  IF results = <<>> THEN <<>>
  ELSE InsertBehindEqual(SortByConfidence(SubSeq(results, 1, Len(results) - 1)),
                         results[Len(results)])

\* the "no entries" result of main.py:54
NoEntries == [name |-> <<"N", "o", "n", "e">>, confidence |-> Value(0, 1)]

BestMatchUnguarded(match_results) ==
  IF Len(match_results) > 0 THEN match_results[1]
  ELSE [name |-> <<>>, confidence |-> Raised("IndexError")]

\* main.py:54
BestMatch(match_results) ==
  IF Len(match_results) > 0 THEN match_results[1] ELSE NoEntries

\* main.py:63  best_match["confidence"] >= STRONG_MATCH_THRESHOLD
IsStrong(confidence) == confidence.num >= STRONG_MATCH_THRESHOLD * confidence.den

\* the first exception among the confidences, "none" when there is none
FirstException(results) ==
  IF \E i \in 1..Len(results) : results[i].confidence.exc # "none"
    THEN results[CHOOSE i \in 1..Len(results) :
                   /\ results[i].confidence.exc # "none"
                   /\ \A j \in 1..(i-1) : results[j].confidence.exc = "none"].confidence.exc
    ELSE "none"

Failed(status) ==
  [status |-> status, ranking |-> <<>>, best |-> NoEntries, verdict |-> "none",
   top |-> <<>>, copied |-> <<>>]

run_comparison_logic(file, items) ==
  LET new_vector == get_feature_vector(file)
  IN  IF ~Truthy(new_vector) THEN Failed("comparison_failed")
      ELSE LET results == MatchResults(new_vector.vector, items)
               exc == FirstException(results)
               match_results == SortByConfidence(results)
               best_match == BestMatch(match_results)
           IN  IF exc # "none" THEN Failed(exc)
               ELSE IF best_match.confidence.exc # "none"
                      THEN Failed(best_match.confidence.exc)
               ELSE [status |-> "compared",
                     ranking |-> match_results,
                     best |-> best_match,
                     verdict |-> IF IsStrong(best_match.confidence)
                                   THEN "strong" ELSE "no_strong",
                     top |-> SubSeq(match_results, 1,
                                    IF Len(match_results) < TOP_N
                                      THEN Len(match_results) ELSE TOP_N),
                     \* copy_to_clipboard(best_match['name'])
                     copied |-> IF IsStrong(best_match.confidence)
                                  THEN <<best_match.name>> ELSE <<>>]

(***************************************************************************)
(* index_all_images (image_indexer.py:83-109)                              *)
(***************************************************************************)

\* str.lower on the letters of the model's file names
LowerChar(c) ==
  CASE c = "P" -> "p"
    [] c = "N" -> "n"
    [] c = "G" -> "g"
    [] OTHER -> c

Lower(chars) == [i \in 1..Len(chars) |-> LowerChar(chars[i])]

EndsWith(chars, suffix) ==
  /\ Len(chars) >= Len(suffix)
  /\ SubSeq(chars, Len(chars) - Len(suffix) + 1, Len(chars)) = suffix

\* image_indexer.py:93  ('.png', '.jpg', '.jpeg')
ImageExtensions ==
  {<<".", "p", "n", "g">>, <<".", "j", "p", "g">>, <<".", "j", "p", "e", "g">>}

HasImageExtension(filename) ==
  \E e \in ImageExtensions : EndsWith(Lower(filename), e)

\* os.path.splitext(filename)[0] of a name without separators: the name up
\* to its last dot, unless only dots precede that dot
DisplayName(filename) ==
  LET dots == {i \in 1..Len(filename) : filename[i] = "."}
  IN  IF dots = {} THEN filename
      ELSE LET dotIndex == CHOOSE i \in dots : \A j \in dots : j <= i
           IN  IF \E j \in 1..(dotIndex - 1) : filename[j] # "."
                 THEN SubSeq(filename, 1, dotIndex - 1)
                 ELSE filename

\* IMAGE_DIR: missing, or its os.listdir as <<[filename, file], ...>>
NoDir == [isdir |-> FALSE, listing |-> <<>>]

Dir(listing) == [isdir |-> TRUE, listing |-> listing]

\* whether the loop takes the entry for an image and whether it decodes
IsItem(entry) == HasImageExtension(entry.filename)
Decodes(entry) == Truthy(get_feature_vector(entry.file))

\* the loop that gives up at the first file it cannot decode
RECURSIVE IndexLoopAborting(_, _, _, _, _)
IndexLoopAborting(items, listing, i, new_count, errors) ==
  IF i > Len(listing) THEN [items |-> items, count |-> new_count, errors |-> errors]
  ELSE IF ~IsItem(listing[i])
         THEN IndexLoopAborting(items, listing, i + 1, new_count, errors)
  ELSE IF Decodes(listing[i])
         THEN IndexLoopAborting(
                DictSet(items, DisplayName(listing[i].filename),
                        VectorList(listing[i].file.vector)),
                listing, i + 1, new_count + 1, errors)
  ELSE [items |-> items, count |-> new_count, errors |-> errors + 1]

\* image_indexer.py:92-107; errors counts the "Error ..." lines that
\* get_feature_vector prints, one for each file it returns None for
RECURSIVE IndexLoop(_, _, _, _, _)
IndexLoop(items, listing, i, new_count, errors) ==
  IF i > Len(listing) THEN [items |-> items, count |-> new_count, errors |-> errors]
  ELSE IF ~IsItem(listing[i])
         THEN IndexLoop(items, listing, i + 1, new_count, errors)
  ELSE IF Decodes(listing[i])
         THEN IndexLoop(DictSet(items, DisplayName(listing[i].filename),
                                VectorList(listing[i].file.vector)),
                        listing, i + 1, new_count + 1, errors)
  ELSE IndexLoop(items, listing, i + 1, new_count, errors + 1)

index_all_images(items, dir) ==
  IF ~dir.isdir THEN [items |-> items, count |-> 0, errors |-> 0]
  ELSE IndexLoop(items, dir.listing, 1, 0, 0)

(***************************************************************************)
(* manage_index (main.py:141-212): the menu session                        *)
(***************************************************************************)

\* what the last menu action was given
Input(op, name, file, dir) == [op |-> op, name |-> name, file |-> file, dir |-> dir]

\* what the last menu action printed: the message, the count of option 2,
\* the error lines, and the result of a comparison
Output(report, count, errors, match) ==
  [report |-> report, count |-> count, errors |-> errors, match |-> match]

Report(report) == Output(report, 0, 0, Failed("none"))

\* main.py:143
Startup ==
  /\ pc = "start"
  /\ index_data' = load_index(store)
  /\ pc' = "menu"
  /\ inp' = Input("start", <<>>, MissingFile, NoDir)
  /\ out' = Report("loaded")
  /\ UNCHANGED store

\* the files a path or a download may lead to
SessionFiles ==
  {ImageFile(Bright(0, CanonicalPixels)), ImageFile(Bright(CanonicalPixels, CanonicalPixels)),
   CorruptFile}

\* option 1, compare_local_file (main.py:71-83)
CompareLocalFile ==
  /\ pc = "menu"
  /\ \E f \in SessionFiles \cup {MissingFile} :
       /\ inp' = Input("compare", <<>>, f, NoDir)
       /\ out' = IF Len(index_data.v) = 0 THEN Report("index_empty")
                 ELSE IF f.kind = "missing" THEN Report("file_not_found")
                 ELSE Output("compared", 0, 0, run_comparison_logic(f, index_data.v))
  /\ UNCHANGED <<pc, index_data, store>>

\* option 5 and a pasted URL, analyze_image_url (main.py:86-138): urlretrieve
\* raises or leaves a file; whatever the comparison raises is caught
AnalyzeImageUrl ==
  /\ pc = "menu"
  /\ \E f \in SessionFiles \cup {MissingFile} :
       /\ inp' = Input("url", <<>>, f, NoDir)
       /\ out' = IF Len(index_data.v) = 0 THEN Report("index_empty")
                 ELSE IF f.kind = "missing" THEN Report("download_error")
                 ELSE Output("compared", 0, 0, run_comparison_logic(f, index_data.v))
  /\ UNCHANGED <<pc, index_data, store>>

\* option 2 (main.py:173-177) on the directory dir
DoMassUpdate(dir) ==
  LET r == index_all_images(index_data.v, dir)
  IN  /\ Len(r.items) <= MaxEntries
      /\ index_data' = PyDict(r.items)
      /\ inp' = Input("mass_update", <<>>, MissingFile, dir)
      /\ out' = Output("indexed", r.count, r.errors, Failed("none"))
      /\ store' = save_index(PyDict(r.items))

FileNameA == <<"a", ".", "p", "n", "g">>
FileNameA2 == <<"a", ".", "j", "p", "g">>
FileNameX == <<"x", ".", "P", "N", "G">>
FileNameDot == <<".", "p", "n", "g">>
FileNameTxt == <<"a", ".", "t", "x", "t">>

Entry(filename, file) == [filename |-> filename, file |-> file]

\* the states of images/ during a session
SessionDirs ==
  {NoDir,
   Dir(<<>>),
   Dir(<<Entry(FileNameA, ImageFile(Bright(0, CanonicalPixels)))>>),
   Dir(<<Entry(FileNameA, CorruptFile),
         Entry(FileNameTxt, ImageFile(Bright(0, CanonicalPixels)))>>),
   Dir(<<Entry(FileNameA, ImageFile(Bright(CanonicalPixels, CanonicalPixels))),
         Entry(FileNameA2, ImageFile(Bright(0, CanonicalPixels)))>>)}

MassUpdate ==
  /\ pc = "menu"
  /\ \E dir \in SessionDirs : DoMassUpdate(dir)
  /\ UNCHANGED pc

\* the display names typed at the prompts
TypedNames == {<<>>, <<"a">>, <<QUOTE>>}

AddData_NoSave ==
  /\ pc = "menu"
  /\ \E f \in SessionFiles, name \in TypedNames :
       LET vector == get_feature_vector(f)
       IN  /\ inp' = Input("add", name, f, NoDir)
           /\ IF Truthy(vector)
                THEN /\ DictHas(index_data.v, name) \/ Len(index_data.v) < MaxEntries
                     /\ index_data' = PyDict(DictSet(index_data.v, name,
                                                       VectorList(vector.vector)))
                     /\ out' = Report("added")
                     /\ UNCHANGED store
                ELSE /\ out' = Report("not_added")
                     /\ UNCHANGED <<index_data, store>>
  /\ UNCHANGED pc

\* option 3 (main.py:179-188)
AddData ==
  /\ pc = "menu"
  /\ \E f \in SessionFiles, name \in TypedNames :
       LET vector == get_feature_vector(f)
       IN  /\ inp' = Input("add", name, f, NoDir)
           /\ IF Truthy(vector)
                THEN /\ DictHas(index_data.v, name) \/ Len(index_data.v) < MaxEntries
                     /\ index_data' = PyDict(DictSet(index_data.v, name,
                                                       VectorList(vector.vector)))
                     /\ out' = Report("added")
                     /\ store' = save_index(index_data')
                ELSE /\ out' = Report("not_added")
                     /\ UNCHANGED <<index_data, store>>
  /\ UNCHANGED pc

RemoveData_Unchecked ==
  /\ pc = "menu"
  /\ IF Len(index_data.v) = 0
       THEN /\ inp' = Input("remove", <<>>, MissingFile, NoDir)
            /\ out' = Report("index_empty")
            /\ UNCHANGED <<pc, index_data, store>>
       ELSE \E name \in TypedNames :
              /\ inp' = Input("remove", name, MissingFile, NoDir)
              /\ IF DictHas(index_data.v, name)
                   THEN /\ index_data' = PyDict(DictDel(index_data.v, name))
                        /\ out' = Report("removed")
                        /\ store' = save_index(index_data')
                        /\ UNCHANGED pc
                   ELSE /\ out' = Report("KeyError")
                        /\ pc' = "crashed"
                        /\ UNCHANGED <<index_data, store>>

\* option 4 (main.py:190-202)
RemoveData ==
  /\ pc = "menu"
  /\ IF Len(index_data.v) = 0
       THEN /\ inp' = Input("remove", <<>>, MissingFile, NoDir)
            /\ out' = Report("index_empty")
            /\ UNCHANGED <<pc, index_data, store>>
       ELSE \E name \in TypedNames :
              /\ inp' = Input("remove", name, MissingFile, NoDir)
              /\ IF DictHas(index_data.v, name)
                   THEN /\ index_data' = PyDict(DictDel(index_data.v, name))
                        /\ out' = Report("removed")
                        /\ store' = save_index(index_data')
                   ELSE /\ out' = Report("not_found")
                        /\ UNCHANGED <<index_data, store>>
              /\ UNCHANGED pc

\* any other choice (main.py:211-212)
InvalidChoice ==
  /\ pc = "menu"
  /\ inp' = Input("invalid", <<>>, MissingFile, NoDir)
  /\ out' = Report("invalid_choice")
  /\ UNCHANGED <<pc, index_data, store>>

\* option 6, and Ctrl-C at the prompt (main.py:159-163, 207-209)
Exit ==
  /\ pc = "menu"
  /\ pc' = "exited"
  /\ inp' = Input("exit", <<>>, MissingFile, NoDir)
  /\ out' = Report("goodbye")
  /\ UNCHANGED <<index_data, store>>

\* the catalogues a store holds when a session starts: names not empty
StartCatalogues ==
  Catalogues({<<"a">>, <<QUOTE>>},
             {Bright(0, CanonicalPixels), Bright(CanonicalPixels, CanonicalPixels)}, 2)

\* a text json.load cannot decode: a dump cut short
CutShort(text) == SubSeq(text, 1, Len(text) - 1)

\* INDEX_FILE when a session starts: absent, empty, cut short, or a saved
\* catalogue
StartStores ==
  {NoFile, FileOf(<<>>)}
    \cup {FileOf(Dumps(PyDict(c))) : c \in StartCatalogues}
    \cup {FileOf(CutShort(Dumps(PyDict(c)))) : c \in StartCatalogues}

Init ==
  /\ pc = "start"
  /\ store \in StartStores
  /\ index_data = FreshIndex
  /\ inp = Input("none", <<>>, MissingFile, NoDir)
  /\ out = Report("none")

Next ==
  \/ Startup
  \/ CompareLocalFile
  \/ MassUpdate
  \/ AddData
  \/ RemoveData
  \/ AnalyzeImageUrl
  \/ InvalidChoice
  \/ Exit

Spec == Init /\ [][Next]_vars

(***************************************************************************)
(* Option 2 on its own: a catalogue and a directory                        *)
(***************************************************************************)

BatchFileNames == {FileNameA, FileNameA2, FileNameX, FileNameDot, FileNameTxt}

BatchFiles ==
  {ImageFile(Bright(0, CanonicalPixels)), ImageFile(Bright(CanonicalPixels, CanonicalPixels)),
   CorruptFile}

\* the listings of n entries, file names distinct
RECURSIVE Listings(_)
Listings(n) ==
  IF n = 0 THEN {<<>>}
  ELSE {Append(t[1], Entry(t[2], t[3])) :
          t \in {u \in Listings(n - 1) \X BatchFileNames \X BatchFiles :
                   \A i \in 1..Len(u[1]) : u[1][i].filename # u[2]}}

\* images/ missing, or with up to n entries
BatchDirs(n) == {NoDir} \cup {Dir(l) : l \in UNION {Listings(k) : k \in 0..n}}

InitBatch ==
  /\ pc = "batch"
  /\ \E c \in {<<>>, <<[k |-> <<"x">>, v |-> VectorList(Bright(1, CanonicalPixels))],
                      [k |-> <<"a">>, v |-> VectorList(Bright(1, CanonicalPixels))]>>} :
       index_data = PyDict(c)
  /\ \E dir \in BatchDirs(MaxBatch) : inp = Input("none", <<>>, MissingFile, dir)
  /\ out = Report("none")
  /\ store = NoFile

BatchUpdate ==
  /\ pc = "batch"
  /\ DoMassUpdate(inp.dir)
  /\ pc' = "batch_done"

NextBatch == BatchUpdate

SpecBatch == InitBatch /\ [][NextBatch]_vars

(***************************************************************************)
(* save_index and load_index on their own: any catalogue, saved and loaded *)
(* back twice                                                              *)
(***************************************************************************)

\* the integers of a saved fingerprint: negative, zero, three digits
IntVals == {-10, 0, 255}

\* the catalogues saved: at most two entries, any order, any names,
\* fingerprints of up to maxlen integers
SavedCatalogues(maxlen) ==
  Catalogues(Names, SeqsUpTo(IntVals, 0, maxlen), 2)

InitStore ==
  /\ pc = "start"
  /\ \E c \in SavedCatalogues(MaxVectorLen) :
       /\ index_data = PyDict(c)
       /\ inp = [catalogue |-> PyDict(c)]
  /\ out = [loads |-> 0]
  /\ store \in {NoFile, FileOf(<<"{">>)}

SaveIndex ==
  /\ pc \in {"start", "loaded"}
  /\ out.loads < 2
  /\ store' = save_index(index_data)
  /\ pc' = "saved"
  /\ UNCHANGED <<inp, out, index_data>>

LoadIndex ==
  /\ pc = "saved"
  /\ index_data' = load_index(store)
  /\ out' = [loads |-> out.loads + 1]
  /\ pc' = "loaded"
  /\ UNCHANGED <<inp, store>>

NextStore == SaveIndex \/ LoadIndex

SpecStore == InitStore /\ [][NextStore]_vars

(***************************************************************************)
(* load_index on its own: any store                                        *)
(***************************************************************************)

RawChars == {"{", "}", "[", "]", ",", ":", QUOTE, "a", "1", SPACE}

\* absent, every text of up to maxlen characters, and saved catalogues
RawStores(maxlen) ==
  {NoFile}
    \cup {FileOf(t) : t \in SeqsUpTo(RawChars, 0, maxlen)}
    \cup {FileOf(Dumps(PyDict(c))) : c \in StartCatalogues}

InitLoad ==
  /\ pc = "start"
  /\ store \in RawStores(MaxRaw)
  /\ index_data = FreshIndex
  /\ inp = Input("none", <<>>, MissingFile, NoDir)
  /\ out = Report("none")

NextLoad == Startup

SpecLoad == InitLoad /\ [][NextLoad]_vars

(***************************************************************************)
(* The scorer on its own: any two vectors, any tolerance                   *)
(***************************************************************************)

\* every sequence of channel values of up to so many pixels, whole pixels
\* or not
ScoreVectors(pixels) == SeqsUpTo(ChanVals, 0, 3 * pixels)

\* vectors of another length than v: v cut short, and v with values appended
OtherLength(v) ==
  {SubSeq(v, 1, k) : k \in 0..(Len(v) - 1)}
    \cup {v \o w : w \in SeqsUpTo(ChanVals, 1, 3)}

InitScore ==
  /\ pc = "call"
  /\ \E a \in ScoreVectors(MaxPixels) :
       \E b \in SeqsOfLen(ChanVals, Len(a)) \cup OtherLength(a) :
         \E T \in Tolerances, swap \in BOOLEAN :
           inp = [a |-> IF swap THEN b ELSE a, b |-> IF swap THEN a ELSE b, T |-> T]
  /\ out = None
  /\ index_data = PyDict(<<>>)
  /\ store = NoFile

CompareVectors ==
  /\ pc = "call"
  /\ out' = compare_vectors(inp.a, inp.b, inp.T)
  /\ pc' = "returned"
  /\ UNCHANGED <<inp, index_data, store>>

NextScore == CompareVectors

SpecScore == InitScore /\ [][NextScore]_vars

(***************************************************************************)
(* The matcher on its own: a query file and a catalogue                    *)
(***************************************************************************)

\* what a catalogue may hold for a name: the canonical vectors, and vectors
\* of another length (an empty list, a vector of one more pixel)
StoredVectors ==
  ImageVectors \cup {<<>>, Bright(0, CanonicalPixels + 1)}

InitMatch ==
  /\ pc = "call"
  /\ \E f \in ImageFiles \cup {CorruptFile, MissingFile} : inp = [file |-> f]
  /\ \E c \in Catalogues(Names, StoredVectors, MaxEntries) : index_data = PyDict(c)
  /\ out = None
  /\ store = NoFile

RunComparisonLogic ==
  /\ pc = "call"
  /\ out' = run_comparison_logic(inp.file, index_data.v)
  /\ pc' = "returned"
  /\ UNCHANGED <<inp, index_data, store>>

NextMatch == RunComparisonLogic

SpecMatch == InitMatch /\ [][NextMatch]_vars

----------------------------------------------------------------------------
(***************************************************************************)
(* Claims about the scorer                                                 *)
(***************************************************************************)

\* a fingerprint: whole RGB triples, at least one
IsFingerprint(v) == Len(v) > 0 /\ Len(v) % 3 = 0

\* the number of pixel indices whose largest channel difference exceeds T,
\* counted over the set of pixels
MismatchedPixels(a, b, T) ==
  Cardinality({p \in 1..(Len(a) \div 3) :
     \E c \in 1..3 : Abs(a[3*(p-1)+c] - b[3*(p-1)+c]) > T})

\* C1: for two fingerprints of equal length and a tolerance T >= 0,
\* compare_vectors returns exactly 100 * (1 - m / n), n the number of pixels
\* and m the number of pixels whose largest channel difference exceeds T, and
\* the result lies in [0, 100].
C1_Confidence ==
  (pc = "returned" /\ Len(inp.a) = Len(inp.b) /\ IsFingerprint(inp.a)) =>
     LET n == Len(inp.a) \div 3
         m == MismatchedPixels(inp.a, inp.b, inp.T)
     IN  /\ out.exc = "none"
         /\ out.den > 0
         /\ out.num * n = 100 * (n - m) * out.den
         /\ 0 <= out.num
         /\ out.num <= 100 * out.den

\* two fingerprints of two pixels, one of them mismatched: 50 percent
C1_Witness ==
  /\ pc = "returned"
  /\ Len(inp.a) = 6 /\ Len(inp.b) = 6
  /\ MismatchedPixels(inp.a, inp.b, inp.T) = 1
  /\ out.exc = "none"
  /\ out.num * 2 = 100 * out.den

\* C3: for two vectors whose lengths differ (either may be empty or hold a
\* broken pixel) compare_vectors returns 0.0 and raises nothing.
C3_LengthMismatch ==
  (pc = "returned" /\ Len(inp.a) # Len(inp.b)) =>
     /\ out.exc = "none"
     /\ out.den > 0
     /\ out.num = 0

\* an empty vector against one of length 4
C3_Witness ==
  /\ pc = "returned"
  /\ Len(inp.a) = 0
  /\ Len(inp.b) = 4
  /\ out.exc = "none"
  /\ out.num = 0

(***************************************************************************)
(* Claims about the matcher                                                *)
(***************************************************************************)

\* the place of a name in the catalogue's iteration order
PlaceOf(items, name) == CHOOSE i \in 1..Len(items) : items[i].k = name

\* C2: the ranking lists every catalogue entry exactly once, each with the
\* scorer's confidence for it, in non-increasing order of confidence, and
\* entries of equal confidence in the catalogue's iteration order.
C2_Ranking ==
  (pc = "returned" /\ out.status = "compared") =>
     LET items == index_data.v
         ranking == out.ranking
     IN  /\ Len(ranking) = Len(items)
         /\ \A i \in 1..Len(items) :
              Cardinality({j \in 1..Len(ranking) : ranking[j].name = items[i].k}) = 1
         /\ \A j \in 1..Len(ranking) :
              /\ DictHas(items, ranking[j].name)
              /\ ranking[j].confidence =
                   compare_vectors(inp.file.vector,
                                   ListVector(DictGet(items, ranking[j].name)),
                                   RGB_TOLERANCE)
         /\ \A j, k \in 1..Len(ranking) :
              j < k =>
                /\ ConfGE(ranking[j].confidence, ranking[k].confidence)
                /\ ConfEQ(ranking[j].confidence, ranking[k].confidence)
                     => PlaceOf(items, ranking[j].name) < PlaceOf(items, ranking[k].name)

\* three entries, the catalogue's first the worst and its other two tied
C2_Witness ==
  /\ pc = "returned"
  /\ out.status = "compared"
  /\ Len(out.ranking) = 3
  /\ out.ranking[3].name = index_data.v[1].k
  /\ out.ranking[1].name = index_data.v[2].k
  /\ ConfEQ(out.ranking[1].confidence, out.ranking[2].confidence)
  /\ ~ConfEQ(out.ranking[2].confidence, out.ranking[3].confidence)

\* C4: a valid query against an empty catalogue gives the "no entries" best
\* match (name "None", confidence 0.0), an empty ranking and the verdict
\* "no strong match", and raises nothing.
C4_EmptyCatalogue ==
  (pc = "returned" /\ inp.file.kind = "image" /\ Len(index_data.v) = 0) =>
     /\ out.status = "compared"
     /\ out.best.name = <<"N", "o", "n", "e">>
     /\ out.best.confidence.exc = "none"
     /\ out.best.confidence.num = 0
     /\ out.ranking = <<>>
     /\ out.verdict = "no_strong"

C4_Witness ==
  /\ pc = "returned"
  /\ inp.file.kind = "image"
  /\ Len(index_data.v) = 0
  /\ out.status = "compared"
  /\ out.verdict = "no_strong"

(***************************************************************************)
(* Claims about the catalogue index                                        *)
(***************************************************************************)

\* a name-to-fingerprint mapping: a dict of lists of int
IsCatalogue(val) ==
  /\ val.t = "dict"
  /\ \A i \in 1..Len(val.v) :
       /\ val.v[i].v.t = "list"
       /\ \A j \in 1..Len(val.v[i].v.v) : val.v[i].v.v[j].t = "int"

\* the entries of a listing the loop takes for images, and those that decode
Items(listing) == {i \in 1..Len(listing) : IsItem(listing[i])}
Decodable(listing) == {i \in Items(listing) : Decodes(listing[i])}

\* C5: remove(name) of a name the catalogue holds deletes that entry and
\* leaves every other entry as it was; of a name it does not hold it changes
\* neither the catalogue nor the store, reports "not found" and the session
\* goes on.
C5_Remove ==
  [][(inp'.op = "remove" /\ out'.report # "index_empty") =>
       LET name == inp'.name
           before == index_data.v
           after == index_data'.v
       IN  IF DictHas(before, name)
             THEN /\ ~DictHas(after, name)
                  /\ Len(after) = Len(before) - 1
                  /\ \A i \in 1..Len(before) :
                       before[i].k # name =>
                         /\ DictHas(after, before[i].k)
                         /\ DictGet(after, before[i].k) = before[i].v
                  /\ out'.report = "removed"
                  /\ pc' = "menu"
             ELSE /\ index_data' = index_data
                  /\ store' = store
                  /\ out'.report = "not_found"
                  /\ pc' = "menu"]_vars

\* a name that is not there was asked for, and the session is at its prompt
C5_Witness ==
  /\ pc = "menu"
  /\ inp.op = "remove"
  /\ out.report = "not_found"
  /\ Len(index_data.v) = 2

\* C6 as claimed: after a batch every decodable item is in the catalogue
\* under its name with its own fingerprint, and the error lines count the
\* undecodable items.
C6_EachItemKept ==
  pc = "batch_done" =>
     LET listing == inp.dir.listing
     IN  /\ \A i \in Decodable(listing) :
              /\ DictHas(index_data.v, DisplayName(listing[i].filename))
              /\ ListVector(DictGet(index_data.v, DisplayName(listing[i].filename)))
                   = listing[i].file.vector
         /\ out.errors = Cardinality(Items(listing) \ Decodable(listing))

\* C6: a batch processes every item: every decodable item's name is in the
\* catalogue, with the fingerprint of the last decodable item of that name;
\* undecodable items are skipped without ending the batch; the error lines
\* count the undecodable items and the reported count the decodable ones.
C6_Batch ==
  pc = "batch_done" =>
     LET listing == inp.dir.listing
     IN  /\ \A i \in Decodable(listing) :
              LET name == DisplayName(listing[i].filename)
                  last == CHOOSE j \in Decodable(listing) :
                            /\ DisplayName(listing[j].filename) = name
                            /\ \A k \in Decodable(listing) :
                                 DisplayName(listing[k].filename) = name => k <= j
              IN  /\ DictHas(index_data.v, name)
                  /\ ListVector(DictGet(index_data.v, name)) = listing[last].file.vector
         /\ out.errors = Cardinality(Items(listing) \ Decodable(listing))
         /\ out.count = Cardinality(Decodable(listing))
         /\ load_index(store) = index_data

\* three items, the second undecodable: the first and the third are in the
\* catalogue and one failure is reported
C6_Witness ==
  /\ pc = "batch_done"
  /\ Len(inp.dir.listing) = 3
  /\ Items(inp.dir.listing) = {1, 2, 3}
  /\ Decodable(inp.dir.listing) = {1, 3}
  /\ DisplayName(inp.dir.listing[1].filename) # DisplayName(inp.dir.listing[3].filename)
  /\ DictHas(index_data.v, DisplayName(inp.dir.listing[1].filename))
  /\ DictHas(index_data.v, DisplayName(inp.dir.listing[3].filename))
  /\ out.errors = 1

\* C7 as claimed: load() always returns a catalogue, the empty one for a
\* store that is absent or holds anything but a serialized catalogue.
C7_LoadReturnsCatalogue ==
  pc = "menu" =>
     /\ IsCatalogue(index_data)
     /\ (~store.exists \/ ~Decode(store.text).ok \/ ~IsCatalogue(Decode(store.text).val))
          => Len(index_data.v) = 0

\* C8: a catalogue saved and loaded back is the catalogue that was saved,
\* names and integers in their order, and so it is after it is saved and
\* loaded a second time.
C8_RoundTrip ==
  pc = "loaded" =>
     /\ IsCatalogue(index_data)
     /\ Len(index_data.v) = Len(inp.catalogue.v)
     /\ index_data = inp.catalogue

\* a name with a quote, a negative and a three-digit integer, loaded twice
C8_Witness ==
  /\ pc = "loaded"
  /\ out.loads = 2
  /\ Len(index_data.v) = 2
  /\ index_data.v[1].k = <<"a", QUOTE>>
  /\ ListVector(index_data.v[1].v) = <<-10, 255>>
  /\ index_data.v[2].k = <<>>

\* C9 as claimed: in every catalogue a session reaches from a store whose
\* names are not empty, no entry's name is empty.
C9_NamesNotEmpty ==
  pc \in {"menu", "exited"} =>
     \A i \in 1..Len(index_data.v) : Len(index_data.v[i].k) > 0

\* C10: whenever the menu is at its prompt, load() of the store gives the
\* catalogue in memory; an action that changes the catalogue has saved it,
\* and a comparison, a failed add and a remove of an absent name change
\* neither the catalogue nor the store.
C10_StoreConsistent ==
  /\ [](pc = "menu" => load_index(store) = index_data)
  /\ [][(pc = "menu" /\ (\/ inp'.op \in {"compare", "url", "invalid"}
                         \/ out'.report \in {"not_added", "not_found", "index_empty"}))
          => (index_data' = index_data /\ store' = store)]_vars

\* an entry was added and saved, then a comparison ran
C10_Witness ==
  /\ pc = "menu"
  /\ inp.op = "compare"
  /\ out.report = "compared"
  /\ store.exists
  /\ Len(index_data.v) = 2
  /\ index_data.v[2].k = <<QUOTE>>

====
